---- MODULE Spec2Model ----
(***************************************************************************)
(* A model of the xirr crate (src/src/lib.rs): compute, validate,          *)
(* compute_with_guess, xirr, dxirr and get_exp, as a state machine over    *)
(* one call of compute at a time.                                          *)
(*                                                                         *)
(* Numbers.  The crate computes in binary64.  The Newton arithmetic is     *)
(* modelled in a binary floating-point format of the same shape (sign,     *)
(* integer mantissa, exponent; NaN, the two infinities, the two zeros,     *)
(* gradual underflow, round to nearest with ties to even) whose mantissa   *)
(* has MantissaBits bits and whose exponent lies in                        *)
(* -ExponentRange..ExponentRange.  The sweep accumulator `guess` of        *)
(* compute, whose last bits decide how many guesses are tried, is kept in  *)
(* exact binary64 (two 30-bit limbs) and narrowed when it is handed to the *)
(* solver.                                                                 *)
(***************************************************************************)
EXTENDS Integers, Sequences, FiniteSets, TLC

\* ------------------------------------------------------------------ bounds
\* Mantissa width of the modelled floating-point format (binary64: 53).
MantissaBits == 12
\* The exponent e of a finite value m * 2^e lies in -ExponentRange..ExponentRange.
ExponentRange == 100
\* Longest payment collection handed to compute.
MaxLen == 3

\* --------------------------------------------------------- program constants
\* const MAX_COMPUTE_WITH_GUESS_ITERATIONS: u32 = 50
MAX_COMPUTE_WITH_GUESS_ITERATIONS == 50
\* days per year in get_exp
DAYS_PER_YEAR == 365

\* ------------------------------------------------------------- evaluation
\* F applied to its operands' values: each operand is evaluated once, before
\* the call, as the operands of a Rust expression are.
Bind1(a, F(_)) == CHOOSE v \in {F(x) : x \in {a}} : TRUE
Bind2(a, b, F(_, _)) == CHOOSE v \in {F(x, y) : x \in {a}, y \in {b}} : TRUE
Bind3(a, b, c, F(_, _, _)) ==
    CHOOSE v \in {F(x, y, z) : x \in {a}, y \in {b}, z \in {c}} : TRUE

\* ----------------------------------------------------- floating-point format
Pow2(k) == 2 ^ k

RECURSIVE BitLen(_)
\* Number of bits of the natural number n (0 for 0).
BitLen(n0) ==
    Bind1(n0, LAMBDA n :
      IF n = 0 THEN 0
      ELSE IF n >= 65536 THEN 16 + BitLen(n \div 65536)
      ELSE IF n >= 256 THEN 8 + BitLen(n \div 256)
      ELSE IF n >= 16 THEN 4 + BitLen(n \div 16)
      ELSE IF n >= 4 THEN 2 + BitLen(n \div 4)
      ELSE IF n >= 2 THEN 2 ELSE 1)

\* f64::NAN
NAN == [k |-> "nan", s |-> 0, m |-> 0, e |-> 0]
\* f64::INFINITY (s = 0) and f64::NEG_INFINITY (s = 1)
Inf(s) == [k |-> "inf", s |-> s, m |-> 0, e |-> 0]
\* +0.0 (s = 0) and -0.0 (s = 1)
Zero(s) == [k |-> "num", s |-> s, m |-> 0, e |-> 0]
\* The finite value (-1)^s * m * 2^e, m and e already in range.
Num(s, m, e) == [k |-> "num", s |-> s, m |-> m, e |-> e]

IsZero(x) == x.k = "num" /\ x.m = 0

\* n / d rounded to the nearest integer, ties to even.
Nearest(n0, d0) ==
    Bind2(n0, d0, LAMBDA n, d :
      LET q == n \div d
          rem == n % d
          half == d \div 2
      IN  IF rem > half \/ (rem = half /\ q % 2 = 1) THEN q + 1 ELSE q)

\* (-1)^s * n * 2^e, n < 2^30, rounded to the format: to nearest, ties to even,
\* subnormal below 2^(MantissaBits-1) * 2^-ExponentRange, infinite on overflow.
Round(s0, n0, e0) ==
    Bind3(s0, n0, e0, LAMBDA s, n, e :
      IF n = 0 THEN Zero(s)
      ELSE
        Bind2(BitLen(n), (0 - ExponentRange) - e, LAMBDA L, b :
          Bind1(IF L - MantissaBits > b THEN L - MantissaBits ELSE b, LAMBDA shift :
            IF shift <= 0
            THEN IF e + shift > ExponentRange THEN Inf(s)
                 ELSE Num(s, n * Pow2(0 - shift), e + shift)
            ELSE IF shift > L THEN Zero(s)
            ELSE
              Bind1(Nearest(n, Pow2(shift)), LAMBDA m1 :
                IF m1 = 0 THEN Zero(s)
                ELSE IF m1 = Pow2(MantissaBits)
                THEN IF e + shift + 1 > ExponentRange THEN Inf(s)
                     ELSE Num(s, Pow2(MantissaBits - 1), e + shift + 1)
                ELSE IF e + shift > ExponentRange THEN Inf(s)
                ELSE Num(s, m1, e + shift)))))

\* The mantissa of a nonzero finite value shifted up to MantissaBits bits.
NormM(x) == x.m * Pow2(MantissaBits - BitLen(x.m))
NormE(x) == x.e - (MantissaBits - BitLen(x.m))

\* `i as f64`
from_i32(i) == IF i < 0 THEN Round(1, 0 - i, 0) ELSE Round(0, i, 0)

\* unary minus
fneg(x0) == Bind1(x0, LAMBDA x : IF x.k = "nan" THEN x ELSE [x EXCEPT !.s = 1 - x.s])

\* f64::abs
abs(x0) == Bind1(x0, LAMBDA x : IF x.k = "nan" THEN x ELSE [x EXCEPT !.s = 0])

\* f64::is_nan
is_nan(x) == x.k = "nan"

\* f64::is_infinite
is_infinite(x) == x.k = "inf"

\* hi + lo for finite nonzero operands, hi of the larger exponent.
AddAligned(hi, lo) ==
    IF hi.e - lo.e > MantissaBits + 2 THEN hi
    ELSE
      Bind1(hi.m * Pow2(hi.e - lo.e) * (1 - 2 * hi.s) + lo.m * (1 - 2 * lo.s), LAMBDA t :
        IF t = 0 THEN Zero(0)
        ELSE IF t < 0 THEN Round(1, 0 - t, lo.e)
        ELSE Round(0, t, lo.e))

\* x + y
fadd(x0, y0) ==
    Bind2(x0, y0, LAMBDA x, y :
      IF x.k = "nan" \/ y.k = "nan" THEN NAN
      ELSE IF x.k = "inf" THEN (IF y.k = "inf" /\ y.s # x.s THEN NAN ELSE x)
      ELSE IF y.k = "inf" THEN y
      ELSE IF x.m = 0 /\ y.m = 0 THEN Zero(IF x.s = 1 /\ y.s = 1 THEN 1 ELSE 0)
      ELSE IF x.m = 0 THEN y
      ELSE IF y.m = 0 THEN x
      ELSE IF x.e >= y.e THEN AddAligned(x, y)
      ELSE AddAligned(y, x))

\* x - y
fsub(x, y) == fadd(x, fneg(y))

\* The sign bit of a product or quotient of x and y.
SignOf(x, y) == (x.s + y.s) % 2

\* x * y
fmul(x0, y0) ==
    Bind2(x0, y0, LAMBDA x, y :
      IF x.k = "nan" \/ y.k = "nan" THEN NAN
      ELSE IF x.k = "inf" \/ y.k = "inf"
      THEN (IF IsZero(x) \/ IsZero(y) THEN NAN ELSE Inf(SignOf(x, y)))
      ELSE Round(SignOf(x, y), x.m * y.m, x.e + y.e))

\* x / y
fdiv(x0, y0) ==
    Bind2(x0, y0, LAMBDA x, y :
      IF x.k = "nan" \/ y.k = "nan" THEN NAN
      ELSE IF x.k = "inf" THEN (IF y.k = "inf" THEN NAN ELSE Inf(SignOf(x, y)))
      ELSE IF y.k = "inf" THEN Zero(SignOf(x, y))
      ELSE IF y.m = 0 THEN (IF x.m = 0 THEN NAN ELSE Inf(SignOf(x, y)))
      ELSE IF x.m = 0 THEN Zero(SignOf(x, y))
      ELSE
        Bind2(NormM(x) * Pow2(MantissaBits + 2), NormM(y), LAMBDA num, den :
          Round(SignOf(x, y), 2 * (num \div den) + (IF num % den = 0 THEN 0 ELSE 1),
                NormE(x) - NormE(y) - MantissaBits - 3)))

\* The sign of x: -1, 0 or 1.
Sgn(x) == IF IsZero(x) THEN 0 ELSE 1 - 2 * x.s

\* -1, 0 or 1 as x is below, equal to or above y; neither is NaN.
Cmp(x0, y0) ==
    Bind2(x0, y0, LAMBDA x, y :
      IF Sgn(x) # Sgn(y) THEN (IF Sgn(x) < Sgn(y) THEN 0 - 1 ELSE 1)
      ELSE IF Sgn(x) = 0 THEN 0
      ELSE IF x.k = "inf" THEN (IF y.k = "inf" THEN 0 ELSE Sgn(x))
      ELSE IF y.k = "inf" THEN 0 - Sgn(x)
      ELSE
        Bind2(NormE(x) - NormE(y), NormM(x) - NormM(y), LAMBDA de, dm :
          IF de # 0 THEN (IF de > 0 THEN Sgn(x) ELSE 0 - Sgn(x))
          ELSE IF dm = 0 THEN 0
          ELSE IF dm > 0 THEN Sgn(x) ELSE 0 - Sgn(x)))

\* x <= y
fle(x0, y0) ==
    Bind2(x0, y0, LAMBDA x, y : x.k # "nan" /\ y.k # "nan" /\ Cmp(x, y) <= 0)

\* x < y
flt(x0, y0) ==
    Bind2(x0, y0, LAMBDA x, y : x.k # "nan" /\ y.k # "nan" /\ Cmp(x, y) < 0)

\* The integer a finite integral value stands for.
IntOf(y) ==
    IF y.m = 0 THEN 0
    ELSE (1 - 2 * y.s) * (IF y.e >= 0 THEN y.m * Pow2(y.e) ELSE y.m \div Pow2(0 - y.e))

\* (-1)^s * m^3 * 2^(3 * e) for a mantissa m of MantissaBits bits, rounded once.
Cube(s, m, e) ==
    Bind2(Pow2(MantissaBits), m * m, LAMBDA B, sq :
      Bind1((sq % B) * m, LAMBDA lm :
        Round(s, 2 * ((sq \div B) * m + lm \div B) + (IF lm % B = 0 THEN 0 ELSE 1),
              3 * e + MantissaBits - 1)))

\* x^n for n in 1..3 and x finite and nonzero, rounded once.
PowPos(x, n) ==
    IF n = 1 THEN x
    ELSE
      Bind2(NormM(x), NormE(x), LAMBDA m, e :
        IF n = 2 THEN Round(0, m * m, 2 * e) ELSE Cube(x.s, m, e))

\* x^n for an integer n in -3..3.
PowInt(x0, n0) ==
    Bind2(x0, n0, LAMBDA x, n :
      IF n = 0 THEN from_i32(1)
      ELSE IF x.k = "nan" THEN NAN
      ELSE
        Bind2(IF n < 0 THEN 0 - n ELSE n, IF n % 2 = 1 THEN x.s ELSE 0, LAMBDA a, s :
          Bind1(IF x.k = "inf" THEN Inf(s)
                ELSE IF x.m = 0 THEN Zero(s)
                ELSE PowPos(x, a), LAMBDA p :
            IF n < 0 THEN fdiv(from_i32(1), p) ELSE p)))

\* f64::powf for an exponent that is a whole number of years (the dates of the
\* model lie whole years apart): correctly rounded, pow(x, 0) = 1 for every x.
powf(x0, y0) ==
    Bind2(x0, y0, LAMBDA x, y :
      IF y.k = "nan" THEN (IF x = from_i32(1) THEN x ELSE NAN)
      ELSE PowInt(x, IntOf(y)))

\* ------------------------------------------------- the accumulator `guess`
\* A binary64 value of magnitude below 2, as a whole number of units of 2^-59
\* (the unit in the last place of 0.01): sign s, magnitude hi * 2^30 + lo.
Limb == 2 ^ 30

\* The literal 0.01: 5764607523034235 * 2^-59.
F64_STEP == [s |-> 0, hi |-> 5368709, lo |-> 128849019]
\* The literal -0.99: -8917127262193582 * 2^-53.
F64_SWEEP_START == [s |-> 1, hi |-> 531502202, lo |-> 944892800]
\* A local that is not declared yet.
F64_NONE == [s |-> 0, hi |-> 0 - 1, lo |-> 0]

\* hi * 2^30 + lo rounded to 53 significant bits, ties to even.
Round64(s0, hi0, lo0) ==
    Bind3(s0, hi0, lo0, LAMBDA s, hi, lo :
      IF BitLen(hi) <= 23 THEN [s |-> s, hi |-> hi, lo |-> lo]
      ELSE
        Bind1(Nearest(lo, Pow2(BitLen(hi) - 23)) * Pow2(BitLen(hi) - 23), LAMBDA lo1 :
          IF lo1 = Limb THEN [s |-> s, hi |-> hi + 1, lo |-> 0]
          ELSE [s |-> s, hi |-> hi, lo |-> lo1]))

\* a - b for magnitudes a >= b, with the sign of a.
F64Diff(a, b) ==
    Bind1(IF a.lo < b.lo THEN 1 ELSE 0, LAMBDA bw :
      IF a.hi - b.hi - bw = 0 /\ a.lo - b.lo + bw * Limb = 0
      THEN [s |-> 0, hi |-> 0, lo |-> 0]
      ELSE Round64(a.s, a.hi - b.hi - bw, a.lo - b.lo + bw * Limb))

\* x + y in binary64, for x and y of magnitude below 2 held in units of 2^-59.
f64_add(x0, y0) ==
    Bind2(x0, y0, LAMBDA x, y :
      IF x.s = y.s
      THEN Bind1(IF x.lo + y.lo >= Limb THEN 1 ELSE 0, LAMBDA c :
             Round64(x.s, x.hi + y.hi + c, x.lo + y.lo - c * Limb))
      ELSE IF x.hi > y.hi \/ (x.hi = y.hi /\ x.lo >= y.lo) THEN F64Diff(x, y)
      ELSE F64Diff(y, x))

\* guess < 2.0
f64_lt_two(x) == x.s = 1 \/ x.hi < Limb

\* guess < 1.0
f64_lt_one(x) == x.s = 1 \/ x.hi < 536870912

\* The binary64 value x narrowed to the modelled format.
narrow(x0) ==
    Bind1(x0, LAMBDA x :
      IF x.hi >= 32768
      THEN Round(x.s, 2 * x.hi + (IF x.lo = 0 THEN 0 ELSE 1), 0 - 30)
      ELSE IF x.hi > 0
      THEN Round(x.s, 2 * (x.hi * 32768 + x.lo \div 32768)
                        + (IF x.lo % 32768 = 0 THEN 0 ELSE 1), 0 - 45)
      ELSE Round(x.s, x.lo, 0 - 59))

\* ---------------------------------------------------------------- constants
\* const MAX_ERROR: f64 = 1e-10
MAX_ERROR == fdiv(fdiv(from_i32(1), from_i32(100000)), from_i32(100000))
\* The literals 0.0, 1.0 and 0.1.
F_ZERO == Zero(0)
F_ONE == from_i32(1)
FIRST_GUESS == fdiv(from_i32(1), from_i32(10))
\* A local that is not declared yet.
F_NONE == [k |-> "none", s |-> 0, m |-> 0, e |-> 0]

\* ------------------------------------------------------------------ inputs
\* Dates are day numbers (PaymentDate: Ord, days_since); the dates of the model
\* lie whole years apart, so every exponent of powf is a whole number.
Day0 == 0 * DAYS_PER_YEAR
Day1 == DAYS_PER_YEAR
Day2 == 2 * DAYS_PER_YEAR
Dates == {Day0, Day1, Day2}

\* Payment { amount, date }
Pay(a, d) == [amount |-> a, date |-> d]

\* The payments the collections handed to compute are made of: an outflow, a
\* later inflow, and a zero of either sign.
Payments ==
    {Pay(from_i32(0 - 3), Day1), Pay(from_i32(2), Day2), Pay(Zero(0), Day0), Pay(Zero(1), Day1)}

\* An outflow and an inflow on one day: the derivative is zero at every rate.
SameDay == <<Pay(from_i32(0 - 3), Day1), Pay(from_i32(2), Day1)>>

\* The collections handed to compute.
Inputs == UNION {[1..n -> Payments] : n \in 0..MaxLen} \cup {SameDay}

\* Every ordering of the collection c.
Orderings(c) ==
    {[j \in 1..Len(c) |-> c[f[j]]] : f \in Permutations(1..Len(c))}

\* Collections compute is called on twice, in any two orders: one with two
\* payments on one day, two with three dates (the first needs the sweep), one
\* without an outflow.
Portfolios ==
    { <<Pay(from_i32(0 - 7), Day0), Pay(from_i32(3), Day1), Pay(from_i32(5), Day1)>>,
      <<Pay(from_i32(0 - 9), Day0), Pay(from_i32(1), Day2), Pay(from_i32(1), Day1)>>,
      <<Pay(from_i32(5), Day2), Pay(from_i32(0 - 9), Day0), Pay(from_i32(4), Day1)>>,
      <<Pay(from_i32(2), Day1), Pay(Zero(0), Day1)>> }
Repeated == UNION {Orderings(c) : c \in Portfolios}

\* Date-ascending sequences and starting guesses compute_with_guess is run on
\* directly: a root near 2^44, the collection without a derivative, a plain one.
SolverInputs ==
    { <<Pay(from_i32(0 - 1), Day0), Pay(Round(0, 3, 43), Day1)>>,
      SameDay,
      <<Pay(from_i32(0 - 4), Day0), Pay(from_i32(2), Day1), Pay(from_i32(3), Day2)>> }
SolverGuesses == {FIRST_GUESS, narrow(F64_SWEEP_START), narrow(F64_STEP)}

\* --------------------------------------------------------------- the crate
\* PaymentDate::days_since(self, other) -> i32
days_since(self, other) == self - other

\* fn get_exp(p, p0) -> f64: days_since as f64 / 365.0
get_exp(p, p0) == fdiv(from_i32(days_since(p.date, p0.date)), from_i32(DAYS_PER_YEAR))

RECURSIVE XirrFrom(_, _, _, _)
\* The loop of xirr from payment i on, `result` so far.
XirrFrom(ps, rate, i, result) ==
    IF i > Len(ps) THEN result
    ELSE LET exp == get_exp(ps[i], ps[1])
         IN  XirrFrom(ps, rate, i + 1,
                      fadd(result, fdiv(ps[i].amount, powf(fadd(F_ONE, rate), exp))))

\* fn xirr(payments, rate) -> f64
xirr(ps, rate) == XirrFrom(ps, rate, 1, F_ZERO)

RECURSIVE DxirrFrom(_, _, _, _)
\* The loop of dxirr from payment i on, `result` so far.
DxirrFrom(ps, rate, i, result) ==
    IF i > Len(ps) THEN result
    ELSE LET exp == get_exp(ps[i], ps[1])
         IN  DxirrFrom(ps, rate, i + 1,
                       fsub(result, fdiv(fmul(ps[i].amount, exp),
                                         powf(fadd(F_ONE, rate), fadd(exp, F_ONE)))))

\* fn dxirr(payments, rate) -> f64
dxirr(ps, rate) == DxirrFrom(ps, rate, 1, F_ZERO)

\* payments.iter().any(|p| p.amount > 0.0)
positive(ps) == \E i \in 1..Len(ps) : flt(F_ZERO, ps[i].amount)
\* payments.iter().any(|p| p.amount < 0.0)
negative(ps) == \E i \in 1..Len(ps) : flt(ps[i].amount, F_ZERO)

\* A validator that asks for one sign only.
validate_either(ps) == positive(ps) \/ negative(ps)

\* fn validate(payments): TRUE for Ok(()), FALSE for Err(InvalidPaymentsError)
validate(ps) == positive(ps) /\ negative(ps)

\* p inserted before the payments of its own date: an unstable sort.
InsertBeforeTies(ps0, p) ==
    Bind1(ps0, LAMBDA ps :
      Bind1(Cardinality({j \in 1..Len(ps) : ps[j].date < p.date}), LAMBDA k :
        SubSeq(ps, 1, k) \o <<p>> \o SubSeq(ps, k + 1, Len(ps))))

\* p inserted into the date-ascending sequence ps behind every payment whose
\* date is not later than its own.
InsertByDate(ps0, p) ==
    Bind1(ps0, LAMBDA ps :
      Bind1(Cardinality({j \in 1..Len(ps) : ps[j].date <= p.date}), LAMBDA k :
        SubSeq(ps, 1, k) \o <<p>> \o SubSeq(ps, k + 1, Len(ps))))

RECURSIVE SortPrefix(_, _)
\* The first n payments of ps sorted by date, ties in their order in ps.
SortPrefix(ps, n) ==
    IF n = 0 THEN <<>> ELSE InsertByDate(SortPrefix(ps, n - 1), ps[n])

\* The collection as it was handed over, not sorted.
unsorted(ps) == ps

\* payments.iter().collect() then sort_by_key(|p| &p.date): a stable sort
sort_by_key(ps) == SortPrefix(ps, Len(ps))

\* r - xirr(payments, r) / dxirr(payments, r)
newton(ps, r) == fsub(r, fdiv(xirr(ps, r), dxirr(ps, r)))

\* A loop condition that forgets NaN.
sweep_on_infinite(g, rt) == f64_lt_one(g) /\ is_infinite(rt)

\* while guess < 1.0 && (rate.is_nan() || rate.is_infinite())
sweep_continues(g, rt) == f64_lt_one(g) /\ (is_nan(rt) \/ is_infinite(rt))

\* !(e > MAX_ERROR): true of a NaN e as well.
not_above(err) == ~flt(MAX_ERROR, err)

\* if e <= MAX_ERROR
converged(err) == fle(err, MAX_ERROR)

\* Result<f64, InvalidPaymentsError>
Err == [tag |-> "Err", value |-> F_NONE]
\* A return that reports NaN as the error.
Ok_unless_nan(v) == IF is_nan(v) THEN Err ELSE [tag |-> "Ok", value |-> v]
Ok(v) == [tag |-> "Ok", value |-> v]
\* compute has not returned.
NoResult == [tag |-> "none", value |-> F_NONE]
\* No earlier call.
NoCall == [in |-> <<>>, out |-> NoResult, nsolve |-> 0, neval |-> 0]

\* ------------------------------------------------------------------- state
VARIABLES
    payments,   \* the caller's collection, borrowed by compute
    pc,         \* the statement of compute / compute_with_guess about to run
    caller,     \* the call site of the latest call of compute_with_guess
    sorted,     \* compute: `sorted`
    rate,       \* compute: `rate`
    guess,      \* compute: `guess` (binary64)
    r,          \* compute_with_guess: `r`
    e,          \* compute_with_guess: `e`
    i,          \* compute_with_guess: iterations of the for loop begun
    result,     \* what compute returned
    nvalidate,  \* history: runs of validate in this call
    nsort,      \* history: sorts in this call
    nsolve,     \* history: invocations of compute_with_guess in this call
    neval,      \* history: Newton steps (one xirr and one dxirr each) in this call
    first       \* history: the collection and the outcome of the previous call

vars == <<payments, pc, caller, sorted, rate, guess, r, e, i, result,
          nvalidate, nsort, nsolve, neval, first>>

Init ==
    /\ payments = <<>>
    /\ pc = "idle"
    /\ caller = "none"
    /\ sorted = <<>>
    /\ rate = F_NONE
    /\ guess = F64_NONE
    /\ r = F_NONE
    /\ e = F_NONE
    /\ i = 0
    /\ result = NoResult
    /\ nvalidate = 0
    /\ nsort = 0
    /\ nsolve = 0
    /\ neval = 0
    /\ first = NoCall

\* A frame of compute on the collection ps.  The locals are not declared yet:
\* their slots hold whatever the previous call left there.
Enter(ps) ==
    /\ payments' = ps
    /\ pc' = "validate"
    /\ result' = NoResult
    /\ nvalidate' = 0
    /\ nsort' = 0
    /\ nsolve' = 0
    /\ neval' = 0
    /\ UNCHANGED <<caller, sorted, rate, guess, r, e, i>>

\* The caller calls compute(&payments).
Call ==
    /\ pc = "idle"
    /\ \E ps \in Inputs \cup Repeated : Enter(ps)
    /\ UNCHANGED first

\* The caller calls compute again, on the same payments in any order.
Again ==
    /\ pc \in {"done", "failed"}
    /\ first = NoCall
    /\ payments \in Repeated
    /\ first' = [in |-> payments, out |-> result, nsolve |-> nsolve, neval |-> neval]
    /\ \E ps \in Orderings(payments) : Enter(ps)

\* compute_with_guess(&sorted, g) is entered from call site `from`:
\* let mut r = guess; let mut e = 1.0;
Solve(g, from) ==
    /\ pc' = "loop"
    /\ caller' = from
    /\ r' = g
    /\ e' = F_ONE
    /\ i' = 0
    /\ nsolve' = nsolve + 1

\* compute_with_guess is run on its own.
CallSolver ==
    /\ pc = "idle"
    /\ \E ps \in SolverInputs, g \in SolverGuesses :
          /\ sorted' = ps
          /\ Solve(g, "direct")
    /\ UNCHANGED <<payments, rate, guess, result, nvalidate, nsort, neval, first>>

\* A validation whose failure does not stop the call.
Validate_then_sort ==
    /\ pc = "validate"
    /\ nvalidate' = nvalidate + 1
    /\ pc' = "sort"
    /\ result' = IF validate(payments) THEN result ELSE Err
    /\ UNCHANGED <<payments, caller, sorted, rate, guess, r, e, i,
                   nsort, nsolve, neval, first>>

\* validate(payments)?;
Validate ==
    /\ pc = "validate"
    /\ nvalidate' = nvalidate + 1
    /\ IF validate(payments)
       THEN pc' = "sort" /\ UNCHANGED result
       ELSE pc' = "failed" /\ result' = Err
    /\ UNCHANGED <<payments, caller, sorted, rate, guess, r, e, i,
                   nsort, nsolve, neval, first>>

\* let mut sorted: Vec<_> = payments.iter().collect(); sorted.sort_by_key(..);
Sort ==
    /\ pc = "sort"
    /\ sorted' = sort_by_key(payments)
    /\ nsort' = nsort + 1
    /\ pc' = "solve"
    /\ UNCHANGED <<payments, caller, rate, guess, r, e, i, result,
                   nvalidate, nsolve, neval, first>>

\* A first solve that starts from the rate the previous call found.
FirstSolve_warm ==
    /\ pc = "solve"
    /\ Solve(IF rate.k = "num" THEN rate ELSE FIRST_GUESS, "first")
    /\ UNCHANGED <<payments, sorted, rate, guess, result,
                   nvalidate, nsort, neval, first>>

\* let mut rate = compute_with_guess(&sorted, 0.1);   (the call)
FirstSolve ==
    /\ pc = "solve"
    /\ Solve(FIRST_GUESS, "first")
    /\ UNCHANGED <<payments, sorted, rate, guess, result,
                   nvalidate, nsort, neval, first>>

\* compute_with_guess returns v and the call site assigns it to rate; after the
\* first call `let mut guess = -0.99` follows, in the loop `guess += 0.01`.
Return(v) ==
    /\ rate' = v
    /\ pc' = IF caller = "direct" THEN "returned" ELSE "while"
    /\ guess' = IF caller = "first" THEN F64_SWEEP_START
                ELSE IF caller = "sweep" THEN f64_add(guess, F64_STEP)
                ELSE guess

\* One iteration of `for _ in 0..MAX_COMPUTE_WITH_GUESS_ITERATIONS`:
\* if e <= MAX_ERROR { return r; } and otherwise one Newton step.
Iterate ==
    /\ pc = "loop"
    /\ i < MAX_COMPUTE_WITH_GUESS_ITERATIONS
    /\ IF converged(e)
       THEN Return(r) /\ UNCHANGED <<r, e, i, neval>>
       ELSE /\ r' = newton(sorted, r)
            /\ e' = abs(fsub(r', r))
            /\ i' = i + 1
            /\ neval' = neval + 1
            /\ UNCHANGED <<pc, rate, guess>>
    /\ UNCHANGED <<payments, caller, sorted, result, nvalidate, nsort, nsolve, first>>

\* The for loop is exhausted: f64::NAN
Exhaust ==
    /\ pc = "loop"
    /\ i = MAX_COMPUTE_WITH_GUESS_ITERATIONS
    /\ Return(NAN)
    /\ UNCHANGED <<payments, caller, sorted, r, e, i, result,
                   nvalidate, nsort, nsolve, neval, first>>

\* The while loop goes on: rate = compute_with_guess(&sorted, guess)  (the call)
Sweep ==
    /\ pc = "while"
    /\ sweep_continues(guess, rate)
    /\ Solve(narrow(guess), "sweep")
    /\ UNCHANGED <<payments, sorted, rate, guess, result,
                   nvalidate, nsort, neval, first>>

\* The while loop ends: Ok(rate)
Finish ==
    /\ pc = "while"
    /\ ~sweep_continues(guess, rate)
    /\ result' = Ok(rate)
    /\ pc' = "done"
    /\ UNCHANGED <<payments, caller, sorted, rate, guess, r, e, i,
                   nvalidate, nsort, nsolve, neval, first>>

Next ==
    \/ Call
    \/ Again
    \/ CallSolver
    \/ Validate
    \/ Sort
    \/ FirstSolve
    \/ Iterate
    \/ Exhaust
    \/ Sweep
    \/ Finish

Spec == Init /\ [][Next]_vars

\* compute runs to its end without waiting for anything.
FairSpec == Spec /\ WF_vars(Validate \/ Sort \/ FirstSolve \/ Iterate \/ Exhaust \/ Sweep \/ Finish)

\* ------------------------------------------------------------- vocabulary
\* compute has returned.
Returned == pc \in {"done", "failed"}
\* A statement of compute itself, or of compute_with_guess called by compute.
InCompute == pc \in {"validate", "sort", "solve", "while", "done", "failed"}
                \/ (pc = "loop" /\ caller # "direct")
\* compute_with_guess has just returned to its call site.
SolverReturned == pc \in {"returned", "while"}

\* The amount is strictly positive / strictly negative, read off its sign bit
\* and magnitude.
StrictlyPositive(a) == a.s = 0 /\ (a.k = "inf" \/ (a.k = "num" /\ a.m > 0))
StrictlyNegative(a) == a.s = 1 /\ (a.k = "inf" \/ (a.k = "num" /\ a.m > 0))
BothSigns(ps) ==
    /\ \E j \in 1..Len(ps) : StrictlyPositive(ps[j].amount)
    /\ \E j \in 1..Len(ps) : StrictlyNegative(ps[j].amount)

\* The payments of ps dated d, in their order in ps.
OnDay(ps, d) == SelectSeq(ps, LAMBDA p : p.date = d)
\* qs holds the payments of ps, those of one date in the order they have in ps.
SameTieOrder(ps, qs) ==
    /\ Len(ps) = Len(qs)
    /\ \A d \in Dates : OnDay(ps, d) = OnDay(qs, d)
DateAscending(ps) == \A j \in 1..Len(ps) - 1 : ps[j].date <= ps[j + 1].date

\* The hundredth -0.99 + 0.01 * (n - 2) the n-th invocation of the solver
\* (n >= 2) starts from, and a thousandth.
Hundredth(n) == fdiv(from_i32(n - 101), from_i32(100))
Thousandth == fdiv(from_i32(1), from_i32(1000))

\* ------------------------------------------------------------------ claims

\* C1: compute returns Err(InvalidPaymentsError) exactly when the collection
\* lacks a strictly positive or a strictly negative amount (empty, all zero,
\* one sign only), and Ok otherwise; a zero of either sign counts for neither.
\* Validation lets exactly the collections with both signs through.
C1_ErrIffNotBothSigns ==
    /\ Returned =>
           /\ (result.tag = "Err") <=> ~BothSigns(payments)
           /\ (result.tag = "Ok") <=> BothSigns(payments)
    /\ (InCompute /\ nvalidate > 0) => (pc = "failed" <=> ~BothSigns(payments))

\* C1 witness: compute has rejected a non-empty collection holding a negative
\* zero and no strictly negative amount.
C1_Witness ==
    /\ pc = "failed"
    /\ result.tag = "Err"
    /\ \E j \in 1..Len(payments) : payments[j].amount = Zero(1)
    /\ \E j \in 1..Len(payments) : StrictlyPositive(payments[j].amount)

\* C2: the first invocation starts from 0.1; the n-th (n >= 2) starts from the
\* sweep guess -0.99 + 0.01 * (n - 2), below 1.0, and is made only when every
\* earlier result was NaN or infinite; compute returns the result of the last
\* invocation, which is finite, or NaN after all 200 guesses failed.
C2_FirstFiniteGuess ==
    /\ (pc = "loop" /\ caller = "first") =>
           /\ nsolve = 1
           /\ i = 0 => r = FIRST_GUESS
    /\ (pc = "loop" /\ caller = "sweep") =>
           /\ nsolve >= 2
           /\ is_nan(rate) \/ is_infinite(rate)
           /\ f64_lt_one(guess)
           /\ fle(abs(fsub(narrow(guess), Hundredth(nsolve))), Thousandth)
           /\ i = 0 => r = narrow(guess)
    /\ pc = "done" =>
           /\ result.tag = "Ok" /\ result.value = rate
           /\ \/ rate.k = "num"
              \/ is_nan(rate) /\ nsolve = 200 /\ ~f64_lt_one(guess)

\* C2 witness: compute returned a finite rate found by a sweep guess after the
\* guess 0.1 had failed.
C2_Witness == pc = "done" /\ nsolve >= 2 /\ result.value.k = "num"

\* C3: a validated collection never yields Err and never aborts the call: when
\* no guess converges compute returns Ok(NaN), and Err and Ok are the only
\* outcomes.
C3_NonConvergenceIsOkNaN ==
    /\ result.tag \in {"none", "Err", "Ok"}
    /\ result.tag = "Err" => pc = "failed" /\ nsolve = 0
    /\ nsolve > 0 /\ InCompute => result.tag # "Err"
    /\ pc = "done" => result.tag = "Ok" /\ result.value = rate
    /\ (pc = "done" /\ is_nan(rate)) =>
           result.tag = "Ok" /\ is_nan(result.value) /\ nsolve = 200
    /\ (pc = "while" /\ ~sweep_continues(guess, rate)) => result.tag = "none"

\* C3 witness: every one of the 200 guesses failed and compute returned Ok(NaN).
C3_Witness == pc = "done" /\ nsolve = 200 /\ result.tag = "Ok" /\ is_nan(result.value)

\* C4 (as claimed): compute on any reordering of a collection returns what it
\* returned on the collection.
C4_AnyOrderSameOutcome ==
    (Returned /\ first # NoCall) => result = first.out

\* C4 (amended): compute on a reordering returns Err or Ok as on the
\* collection, and the same value when the reordering keeps the payments of
\* each date in their order.
C4_TieOrderSameOutcome ==
    (Returned /\ first # NoCall) =>
        /\ result.tag = first.out.tag
        /\ SameTieOrder(first.in, payments) => result = first.out

\* C4 witness: compute returned on a reordering that moved payments of
\* different dates only.
C4_Witness ==
    /\ pc = "done" /\ first # NoCall
    /\ payments # first.in
    /\ SameTieOrder(first.in, payments)
    /\ \E j, k \in 1..Len(payments) : j < k /\ payments[j].date = payments[k].date

\* C5: every call of compute ends, having invoked the solver at most 200 times,
\* each invocation running its loop at most 50 times.
C5_BoundedWork ==
    /\ [](/\ nsolve <= 200
          /\ i <= MAX_COMPUTE_WITH_GUESS_ITERATIONS
          /\ neval <= nsolve * MAX_COMPUTE_WITH_GUESS_ITERATIONS)
    /\ (pc = "validate") ~> Returned

\* C5 witness: a call that used all 200 invocations, 50 iterations each.
C5_Witness ==
    /\ pc = "done" /\ nsolve = 200
    /\ neval = 200 * MAX_COMPUTE_WITH_GUESS_ITERATIONS

\* C6: validate runs once, first; when it fails compute returns the error with
\* nothing sorted, evaluated or solved; sorting and solving happen only after
\* it succeeded.
C6_ValidateFirst ==
    InCompute =>
        /\ nvalidate <= 1
        /\ pc = "validate" => nvalidate = 0 /\ nsort = 0 /\ nsolve = 0 /\ neval = 0
        /\ pc = "failed" => nvalidate = 1 /\ nsort = 0 /\ nsolve = 0 /\ neval = 0
                             /\ result.tag = "Err"
        /\ (nsort > 0 \/ nsolve > 0 \/ neval > 0 \/ pc \in {"sort", "solve", "loop", "while", "done"})
              => nvalidate = 1 /\ BothSigns(payments)

\* C6 witness: validation failed on a non-empty collection and compute returned.
C6_Witness == pc = "failed" /\ Len(payments) > 0 /\ nvalidate = 1

C8_NaNIffNoStepConverged ==
    SolverReturned =>
        /\ is_nan(rate) <=> ~converged(e)
        /\ ~is_nan(rate) => rate = r /\ i >= 1

\* C9: whenever xirr and dxirr run inside compute, `sorted` is the one sort of
\* the caller's collection: non-empty, date-ascending, ties in input order; its
\* first payment has the earliest date and exponent 0, and no exponent is
\* negative.
C9_SortedEpoch ==
    (pc = "loop" /\ caller # "direct") =>
        /\ nsort = 1
        /\ Len(sorted) > 0
        /\ DateAscending(sorted)
        /\ SameTieOrder(payments, sorted)
        /\ \A j \in 1..Len(payments) : sorted[1].date <= payments[j].date
        /\ get_exp(sorted[1], sorted[1]) = F_ZERO
        /\ \A j \in 1..Len(sorted) : fle(F_ZERO, get_exp(sorted[j], sorted[1]))

\* C9 witness: the evaluators run on a collection handed over out of date order
\* with two payments on one day.
C9_Witness ==
    /\ pc = "loop" /\ caller # "direct" /\ i > 0
    /\ ~DateAscending(payments)
    /\ \E j, k \in 1..Len(payments) :
          j < k /\ payments[j].date = payments[k].date /\ payments[j] # payments[k]

\* C10: compute_with_guess returns NaN or a finite rate whose last Newton step
\* moved it by at most 1e-10, never an infinity and never its guess untouched;
\* so rate is never infinite in compute.
C10_NeverInfinite ==
    /\ ~is_infinite(rate)
    /\ SolverReturned =>
          \/ is_nan(rate)
          \/ rate.k = "num" /\ rate = r /\ converged(e) /\ i >= 1
    /\ pc = "done" => is_nan(result.value) \/ result.value.k = "num"

\* C10 witness: an invocation whose iterate ran off to an infinity returned NaN.
C10_Witness == SolverReturned /\ is_infinite(r) /\ is_nan(rate)
====
